---- MODULE Spec2Model ----
(***************************************************************************)
(* Model of job_agent/linkedin/job_applier.py: LLMGenericApplicator.       *)
(*                                                                         *)
(* The applicator analyses an application page with a reasoning service    *)
(* (or takes the schema of the page's host from its cache), asks the       *)
(* service for the values of the fields, fills the fields through the      *)
(* browser driver, pauses in the debugger (breakpoint()) and then clicks   *)
(* the submit control.                                                     *)
(*                                                                         *)
(* Beside it, three functions of the pipeline that feeds the applicator:   *)
(* filter_new_jobs (job_validator.py), fetch_job_details_safely            *)
(* (orchestrator.py) and JobSearch.search (job_search.py).                 *)
(***************************************************************************)
EXTENDS Integers, Sequences, FiniteSets, TLC

(***************************************************************************)
(* Bounds of the model.                                                    *)
(***************************************************************************)
\* longest "fields" list the reasoning service returns to apply
MaxFields == 2
\* longest "fields" list of the stand-alone fill specification
MaxFillFields == 2
\* number of apply calls made on one applicator instance
MaxCalls == 2
\* longest list of jobs given to filter_new_jobs and fetch_job_details_safely
MaxJobs == 2
\* most job cards the driver finds on one result page
MaxCards == 2
\* largest scraper_input.results_wanted
MaxWanted == 2
\* most rows of the sheet given to filter_new_jobs
MaxRows == 2

(***************************************************************************)
(* Data: URLs, selectors, fields, schemas, values.                         *)
(***************************************************************************)
Url(h, p) == [host |-> h, path |-> p]

\* The URLs apply is called with.
Urls == {Url("jobs.lever.co", "/a/apply"), Url("jobs.lever.co", "/b/apply"),
         Url("boards.greenhouse.io", "/a/apply")}

Hosts == {u.host : u \in Urls}

\* A selector string of the schema.  kind "name" is a string that contains
\* "[name='<name>']", kind "css" any other non-empty string, kind "none" a
\* missing or empty selector.
CssSel(id) == [kind |-> "css", name |-> id, value |-> ""]
NameSel(n) == [kind |-> "name", name |-> n, value |-> ""]
NoSel == [kind |-> "none", name |-> "", value |-> ""]

\* A missing key of a JSON object (dict.get returns None).
None == "None"
\* The value the generator returns for a field that is to be left alone.
NA == "N/A"

\* Result of  field.get('label'), field.get('selector'), field.get('type').
\* One entry of "fields" (lines 120-146); "required" is what the analysis
\* service reported for the input.
Field(l, s, t) == [label |-> l, selector |-> s, type |-> t, required |-> FALSE]
RequiredField(l, s, t) == [label |-> l, selector |-> s, type |-> t, required |-> TRUE]

Labels == {"First Name", "Gender"}

\* filled_values.get(label): None when the key is missing, or the string the
\* service gave ("" is a string that Python takes as false).
ValueKinds == {None, NA, "", "B"}

\* structure.get("submit_button"): missing, an object without "selector", or
\* an object with a selector.
NoSubmit == [present |-> FALSE, selector |-> NoSel]
SubmitNoSelector == [present |-> TRUE, selector |-> NoSel]
SubmitButton == [present |-> TRUE, selector |-> CssSel("submit")]
SubmitSpecs == {NoSubmit, SubmitNoSelector, SubmitButton}

Schema(fs, sb) == [fields |-> fs, submit_button |-> sb]

\* No schema: a local that is not bound yet, a host that is not in the cache.
NoStructure == [fields |-> <<>>, submit_button |-> [present |-> FALSE, selector |-> [kind |-> "unset", name |-> "", value |-> ""]]]

SeqsUpTo(S, n) == UNION {[1..k -> S] : k \in 0..n}

\* The fields the reasoning service describes in the apply specification.
ApplyFieldPool ==
    { Field("First Name", CssSel("first_name"), "text") }

\* The fields of the stand-alone fill specification: every branch of
\* _fill_form and the malformed fields.
FillFieldPool ==
    { Field("First Name", CssSel("first_name"), "text"),
      Field("Gender", NameSel("gender"), "radio"),
      Field("Gender", CssSel("gender"), "radio"),
      Field("Gender", CssSel("gender"), "select"),
      Field("First Name", CssSel("resume"), "file"),
      Field(None, CssSel("first_name"), "text"),
      Field("First Name", NoSel, "text"),
      Field("Gender", NameSel("gender"), None) }

ServiceSchemas == {Schema(fs, sb) : fs \in SeqsUpTo(ApplyFieldPool, MaxFields), sb \in SubmitSpecs}

FillSchemas == {Schema(fs, sb) : fs \in SeqsUpTo(FillFieldPool, MaxFillFields), sb \in {SubmitButton}}

ValueMaps == [Labels -> ValueKinds]

\* The schemas of the value generator's specification: required and optional
\* fields.
GenerateFieldPool ==
    { Field("First Name", CssSel("first_name"), "text"),
      RequiredField("First Name", CssSel("first_name"), "text"),
      Field("Gender", NameSel("gender"), "radio"),
      RequiredField("Gender", NameSel("gender"), "radio") }

\* Line 302 has let the schema pass: it has a field.
GenerateSchemas == {Schema(fs, sb) : fs \in SeqsUpTo(GenerateFieldPool, MaxFillFields) \ {<<>>}, sb \in {SubmitButton}}

(***************************************************************************)
(* _fill_form: what one iteration of the loop does with one field.         *)
(***************************************************************************)
\* Python's "not x" for the strings and missing values of the model.
Falsy(x) == x \in {None, ""}

\* One call to the browser driver.
Call(op, sel, val) == [op |-> op, sel |-> sel, val |-> val]

\* name_attr of the radio branch: selector.split("[name='")[1].split("']")[0]
\* when the selector contains "[name='", None otherwise.
NameAttr(selector) == IF selector.kind = "name" THEN selector.name ELSE None

\* A bug of line 271: the locator names the group only, so it matches the
\* first option of the group whatever the value.
OptionSelectorGroupOnly(name_attr, v) == [kind |-> "input_name_value", name |-> name_attr, value |-> ""]

\* f"input[name='{name_attr}'][value='{target_value}']"
OptionSelector(name_attr, v) == [kind |-> "input_name_value", name |-> name_attr, value |-> v]

\* filled_values.get(label)
TargetValue(field, values) == IF field.label \in DOMAIN values THEN values[field.label] ELSE None

\* A bug of line 228: only the label is looked at.
MalformedChecksLabelOnly(field) == Falsy(field.label)

\* line 228: not label or not selector or not field_type
Malformed(field) == Falsy(field.label) \/ field.selector.kind = "none" \/ Falsy(field.type)

\* A bug of line 232: only a missing or empty value is skipped.
SkipValueIgnoresSentinel(v) == Falsy(v)

\* line 232: not target_value or target_value == "N/A"
SkipValue(v) == Falsy(v) \/ v = NA

\* The branch of the loop body a field takes.
Branch(field, v) ==
    IF Malformed(field) THEN "malformed"
    ELSE IF SkipValue(v) THEN "skip"
    ELSE IF field.type = "file" THEN "file"
    ELSE IF field.type = "select" THEN "select"
    ELSE IF field.type = "radio"
         THEN (IF Falsy(NameAttr(field.selector)) THEN "radio_unparsed" ELSE "radio")
    ELSE "text"

\* What the page does to the driver calls of one field: "ok", or the call
\* that raises.  For a select: "by_value_error" is select_by_value raising
\* something other than NoSuchElementException; in "by_text_ok",
\* "by_text_error" and "no_option" select_by_value raises
\* NoSuchElementException and select_by_visible_text succeeds, raises
\* something else, or raises NoSuchElementException too.
PageBehaviours(branch) ==
    CASE branch = "file" -> {"ok", "locate", "send_keys"}
      [] branch = "select" -> {"ok", "locate", "tag_name", "by_value_error", "by_text_ok", "by_text_error", "no_option"}
      [] branch = "radio" -> {"ok", "locate", "click"}
      [] branch = "text" -> {"ok", "locate", "clear", "send_keys"}
      [] OTHER -> {"ok"}

\* The driver calls of one field, in order, up to and including one that raises.
FieldCalls(field, v, page) ==
    LET sel == field.selector
        br == Branch(field, v)
        locate == Call("locate", sel, "")
    IN  CASE br = "file" ->
               IF page = "locate" THEN <<locate>>
               ELSE <<locate, Call("send_keys", sel, v)>>
          [] br = "select" ->
               IF page = "locate" THEN <<locate>>
               ELSE IF page = "tag_name" THEN <<locate, Call("tag_name", sel, "")>>
               ELSE IF page \in {"ok", "by_value_error"}
                    THEN <<locate, Call("tag_name", sel, ""), Call("select_by_value", sel, v)>>
               ELSE <<locate, Call("tag_name", sel, ""), Call("select_by_value", sel, v),
                      Call("select_by_visible_text", sel, v)>>
          [] br = "radio" ->
               LET opt == OptionSelector(NameAttr(sel), v)
               IN  IF page = "locate" THEN <<Call("locate", opt, v)>>
                   ELSE <<Call("locate", opt, v), Call("script_click", opt, v)>>
          [] br = "text" ->
               IF page = "locate" THEN <<locate>>
               ELSE IF page = "clear" THEN <<locate, Call("clear", sel, "")>>
               ELSE <<locate, Call("clear", sel, ""), Call("send_keys", sel, v)>>
          [] OTHER -> <<>>

\* Whether the try block of the field ends in "except Exception" (line 288).
FieldRaises(field, v, page) ==
    /\ Branch(field, v) \in {"file", "select", "radio", "text"}
    /\ page \in {"locate", "tag_name", "by_value_error", "by_text_error", "clear", "send_keys", "click"}

\* The message the loop body logs last for the field.
FieldLog(field, v, page) ==
    LET br == Branch(field, v)
    IN  IF br = "malformed" THEN "warning_skipping_malformed"
        ELSE IF br = "skip" THEN "info_skipping"
        ELSE IF FieldRaises(field, v, page) THEN "error_failed_to_fill"
        ELSE IF br = "radio_unparsed" THEN "error_radio_name"
        ELSE IF br = "select" /\ page = "no_option" THEN "warning_no_option"
        ELSE "info_filling"


(***************************************************************************)
(* State.                                                                  *)
(***************************************************************************)
VARIABLES
    structure_cache,  \* self.structure_cache: host -> schema
    cache_file,       \* the JSON document of self.cache_file
    pc,               \* position of the current apply call
    url,              \* job_url of the current apply call
    structure,        \* local "structure" of apply
    filled_data,      \* local "filled_data" of apply
    attempts,         \* per field of the loop of _fill_form: driver calls and log
    submit_calls,     \* driver calls of the submit step (lines 332-338)
    gate,             \* the pause of line 330: "not_reached", "presented", "approved", "declined"
    requests,         \* reasoning-service requests of the current apply call
    failed,           \* the stage whose exception reached "except Exception" of apply
    result,           \* what apply gave its caller: "None" while it runs
    ncalls,           \* apply calls started
    last_analyze,     \* the latest _analyze_page_structure call
    prev_analyze,     \* the one before it
    peers,            \* applicators of parallel processes on the same cache file
    filter_call,      \* one call of filter_new_jobs
    fetch_call,       \* one call of fetch_job_details_safely
    search_call       \* one call of JobSearch.search

vars == <<structure_cache, cache_file, pc, url, structure, filled_data, attempts,
          submit_calls, gate, requests, failed, result, ncalls, last_analyze, prev_analyze,
          peers, filter_call, fetch_call, search_call>>

\* The calls of the orchestrator's functions; the applicator does not touch
\* them.
orchestrator_vars == <<filter_call, fetch_call, search_call>>

\* What an apply step other than the analysis leaves alone.
cache_vars == <<structure_cache, cache_file, last_analyze, prev_analyze, peers, orchestrator_vars>>

\* The cache document: readable JSON with one schema per host, a file that
\* json.load rejects with JSONDecodeError, no file at all, or a file that
\* open() or the decoding of its bytes refuses (OSError, UnicodeDecodeError).
EmptyCache == [h \in Hosts |-> NoStructure]
Document(c) == [exists |-> TRUE, opens |-> TRUE, readable |-> TRUE, doc |-> c]
CorruptDocument == [exists |-> TRUE, opens |-> TRUE, readable |-> FALSE, doc |-> EmptyCache]
MissingDocument == [exists |-> FALSE, opens |-> FALSE, readable |-> FALSE, doc |-> EmptyCache]
UnreadableDocument == [exists |-> TRUE, opens |-> FALSE, readable |-> FALSE, doc |-> EmptyCache]

\* _load_cache, lines 63-71: the document when json.load accepts it, {} when
\* there is no file or json.load raises JSONDecodeError.
LoadCache(file) == IF file.exists /\ file.opens /\ file.readable THEN file.doc ELSE EmptyCache

\* _load_cache lets every other exception through to __init__ and its caller.
LoadRaises(file) == file.exists /\ ~file.opens

\* The parallel applicators: each has its own structure_cache, loaded when
\* it was constructed, and is at one place of _analyze_page_structure.
Instances == {"a", "b"}
Peer(p, c, u, s, w) == [pc |-> p, cache |-> c, url |-> u, returned |-> s, stored |-> w]
NoPeers == [i \in Instances |-> Peer("unconstructed", EmptyCache, Url("", ""), NoStructure, FALSE)]

(***************************************************************************)
(* Data of the pipeline functions.                                         *)
(***************************************************************************)
\* A JobPost (model.py lines 239-260): id is "str | None", location is
\* Optional; has_location says whether job.location is set.
JobPost(id, loc) == [id |-> id, has_location |-> loc]
JobIds == {None, "", "1", "2"}

\* One cell of a sheet column: missing (NaN), a string, or an integer (v
\* holds its decimal digits).
NaNCell == [kind |-> "nan", v |-> ""]
StrCell(t) == [kind |-> "str", v |-> t]
IntCell(t) == [kind |-> "int", v |-> t]
SheetCells == {NaNCell, StrCell(""), StrCell("1"), StrCell("2"), IntCell("1")}

\* existing_df: whether it has a column 'id', and the cells of that column
\* (of some other column when there is none), one per row.
DataFrame(has_id, cells) == [id_column |-> has_id, cells |-> cells]
DataFrames == {DataFrame(b, cs) : b \in BOOLEAN, cs \in SeqsUpTo(SheetCells, MaxRows)}

\* existing_df.empty: no row.
Empty(df) == df.cells = <<>>

\* The dtype pandas gives the column: integers together with missing
\* cells, and nothing else, make it float64.
FloatColumn(cells) ==
    /\ \E k \in DOMAIN cells : cells[k].kind = "nan"
    /\ \E k \in DOMAIN cells : cells[k].kind = "int"
    /\ \A k \in DOMAIN cells : cells[k].kind \in {"nan", "int"}

\* line 26: set(existing_df['id'].dropna().astype(str))
ExistingIds(df) ==
    {IF df.cells[k].kind = "int" /\ FloatColumn(df.cells)
     THEN df.cells[k].v \o ".0"
     ELSE df.cells[k].v : k \in {j \in DOMAIN df.cells : df.cells[j].kind # "nan"}}

\* lines 18-37 of job_validator.py; str(job.id) of a str is the str itself.
FilterNewJobs(scraped_jobs, existing_df) ==
    IF Empty(existing_df) THEN scraped_jobs
    ELSE IF ~existing_df.id_column THEN scraped_jobs
    ELSE LET existing_ids == ExistingIds(existing_df)
             IsNew(job) == ~Falsy(job.id) /\ job.id \notin existing_ids
         IN  SelectSeq(scraped_jobs, IsNew)

FilterCall(p, jobs, df, out) == [pc |-> p, scraped_jobs |-> jobs, existing_df |-> df, new_jobs |-> out]
NoFilterCall == FilterCall("idle", <<>>, DataFrame(FALSE, <<>>), <<>>)

\* What agent.get_job_details_by_id(job.id) returns (main.py lines 774-869):
\* the dict of lines 849-860, or None from its two except clauses.
JobDetails(id, apply_type) == [found |-> TRUE, job_id |-> id, apply_type |-> apply_type,
                               job_location_scraped_from_linkedin |-> FALSE]
NoJobDetails == [found |-> FALSE, job_id |-> None, apply_type |-> None,
                 job_location_scraped_from_linkedin |-> FALSE]
AgentAnswers(job) == {NoJobDetails, JobDetails(job.id, "Easy Apply"), JobDetails(job.id, "External Apply")}

\* lines 44-47 of orchestrator.py: the enrichment with the scraped location.
Enriched(job, job_detail) ==
    IF job.has_location
    THEN [job_detail EXCEPT !.job_location_scraped_from_linkedin = TRUE]
    ELSE job_detail

\* Whether the body of the try (lines 41-52) raises: on None, line 45 is an
\* item assignment to None and line 50 a .get on None.
FetchRaises(job, job_detail) == ~job_detail.found

\* A call of fetch_job_details_safely: its argument, the number of jobs the
\* loop has taken, job_details_list, and what the agent answered for each
\* job so far.
FetchCall(p, jobs, i, details, answers) ==
    [pc |-> p, new_jobs_to_process |-> jobs, i |-> i, job_details_list |-> details,
     answers |-> answers]
NoFetchCall == FetchCall("idle", <<>>, 0, <<>>, <<>>)
\* job_search.py line 211: the search stops at start >= 1000; line 329: a
\* result page moves start by 25; line 203: offset // 10 * 10.
StartLimit == 1000
PageStep == 25
OffsetUnit == 10

\* A job card of a result page: its data-job-id attribute (None when the
\* attribute is missing or reading it raises) and the id of the JobPost that
\* scrape_job_card_detail builds from the card's link: the id of the card,
\* or None when it returns None.
Card(attr, post) == [job_id |-> attr, post_id |-> post]
CardIds == {None, "1", "2"}
Cards == {card \in {Card(attr, post) : attr \in CardIds, post \in CardIds} :
            card.post_id \in {None, card.job_id}}
Pages == SeqsUpTo(Cards, MaxCards)

\* lines 277-290, over the cards the scrolling of one page shows, in order:
\* the JobPosts the page appends to job_list.jobs.  scraped_job_ids holds
\* the data-job-id values this page has taken.
RECURSIVE PagePosts(_, _)
PagePosts(cards, scraped_job_ids) ==
    IF cards = <<>> THEN <<>>
    ELSE LET card == Head(cards)
         IN  IF ~Falsy(card.job_id) /\ card.job_id \notin scraped_job_ids
             THEN (IF card.post_id # None THEN <<JobPost(card.post_id, TRUE)>> ELSE <<>>)
                  \o PagePosts(Tail(cards), scraped_job_ids \cup {card.job_id})
             ELSE PagePosts(Tail(cards), scraped_job_ids)

\* A call of JobSearch.search: results_wanted of its input, start,
\* job_list.jobs, and seen_ids, which line 200 creates.
SearchCall(p, wanted, start, jobs) ==
    [pc |-> p, results_wanted |-> wanted, start |-> start, job_list |-> jobs, seen_ids |-> {}]
NoSearchCall == SearchCall("idle", 0, 0, <<>>)

\* lines 210-212
ContinueSearch(call) == Len(call.job_list) < call.results_wanted /\ call.start < StartLimit

OrchestratorIdle ==
    /\ filter_call = NoFilterCall
    /\ fetch_call = NoFetchCall
    /\ search_call = NoSearchCall

\* filled_data before the generator has answered.
NoValues == <<>>

NoRequests == [analyze |-> 0, generate |-> 0]
\* One _analyze_page_structure call: its URL, the cache key it computed,
\* whether the key was cached, the requests it made, the schema it returned
\* (NoStructure when it raised) and what made it raise.
NoAnalysis == [done |-> FALSE, url |-> Url("", ""), host |-> "", hit |-> FALSE, requests |-> 0,
               returned |-> NoStructure, error |-> "none"]
Analysis(h, hit, n, s) == [done |-> TRUE, url |-> url, host |-> h, hit |-> hit, requests |-> n,
                           returned |-> s, error |-> "none"]
FailedAnalysis(h, n, err) == [done |-> TRUE, url |-> url, host |-> h, hit |-> FALSE, requests |-> n,
                              returned |-> NoStructure, error |-> err]

\* The outcomes of apply: line 345 and 320 return True, lines 304 and 350
\* return False; "Raised" is an exception that leaves apply.
ReturnTrue == "True"
ReturnFalse == "False"
Raised == "Raised"

\* A bug of the key: a part of the URL that every URL shares (the scheme), so
\* that all hosts fall on one key, here the key of the first host.
DomainKeyIgnoresHost(u) == "jobs.lever.co"

\* _get_domain_key: urlparse(url).netloc
DomainKey(u) == u.host

LabelsOf(s) == {s.fields[k].label : k \in DOMAIN s.fields} \ {None}

ApplicatorIdle ==
    /\ structure_cache = EmptyCache
    /\ cache_file = Document(EmptyCache)
    /\ pc = "idle"
    /\ url = Url("", "")
    /\ structure = NoStructure
    /\ filled_data = NoValues
    /\ attempts = <<>>
    /\ submit_calls = <<>>
    /\ gate = "not_reached"
    /\ requests = NoRequests
    /\ failed = "none"
    /\ result = "None"
    /\ ncalls = 0
    /\ last_analyze = NoAnalysis
    /\ prev_analyze = NoAnalysis
    /\ peers = NoPeers

Init == ApplicatorIdle /\ OrchestratorIdle

(***************************************************************************)
(* apply, step by step.                                                    *)
(***************************************************************************)
\* An exception inside the try of apply: "except Exception" of line 347 logs
\* it and pauses at line 349.
RaiseTo(stage) ==
    /\ pc' = "pause_error"
    /\ failed' = stage

\* A caller calls apply(job_url, candidate_data).
StartApply(u) ==
    /\ pc \in {"idle", "done"}
    /\ ncalls < MaxCalls
    /\ ncalls' = ncalls + 1
    /\ pc' = "navigate"
    /\ url' = u
    /\ structure' = NoStructure
    /\ filled_data' = NoValues
    /\ attempts' = <<>>
    /\ submit_calls' = <<>>
    /\ gate' = "not_reached"
    /\ requests' = NoRequests
    /\ failed' = "none"
    /\ result' = "None"
    /\ UNCHANGED cache_vars

\* line 294: self.driver.get(job_url)
Navigate ==
    /\ pc = "navigate"
    /\ \E ok \in BOOLEAN :
         IF ok THEN pc' = "wait_ready" /\ UNCHANGED failed
         ELSE RaiseTo("navigate")
    /\ UNCHANGED <<url, structure, filled_data, attempts, submit_calls, gate,
                   requests, result, ncalls, cache_vars>>

\* lines 295-299: wait for document.readyState, sleep, read page_source
WaitReady ==
    /\ pc = "wait_ready"
    /\ \E ok \in BOOLEAN :
         IF ok THEN pc' = "analyze" /\ UNCHANGED failed
         ELSE RaiseTo("wait_ready")
    /\ UNCHANGED <<url, structure, filled_data, attempts, submit_calls, gate,
                   requests, result, ncalls, cache_vars>>


\* A bug of the hit: the entry is dropped once it has been served (an expiry).
AnalyzeHitEvicts ==
    LET domain == DomainKey(url)
    IN  /\ structure' = structure_cache[domain]
        /\ pc' = "check_fields"
        /\ prev_analyze' = last_analyze
        /\ last_analyze' = Analysis(domain, TRUE, 0, structure_cache[domain])
        /\ structure_cache' = [structure_cache EXCEPT ![domain] = NoStructure]
        /\ UNCHANGED <<cache_file, requests, failed>>

\* line 300: _analyze_page_structure(job_url, html), lines 100-166.
\* lines 107-109: the host is in the cache
AnalyzeHit ==
    LET domain == DomainKey(url)
    IN  /\ structure' = structure_cache[domain]
        /\ pc' = "check_fields"
        /\ prev_analyze' = last_analyze
        /\ last_analyze' = Analysis(domain, TRUE, 0, structure_cache[domain])
        /\ UNCHANGED <<structure_cache, cache_file, requests, failed>>

\* lines 111-166: the host is not in the cache; schemas are the documents the
\* reasoning service may answer with.
AnalyzeMiss(schemas) ==
    LET domain == DomainKey(url)
    IN  /\ requests' = [requests EXCEPT !.analyze = @ + 1]
        /\ prev_analyze' = last_analyze
        /\ \/ \* the request of line 152 raises
              /\ RaiseTo("analyze")
              /\ last_analyze' = FailedAnalysis(domain, 1, "request")
              /\ UNCHANGED <<structure_cache, cache_file, structure>>
           \/ \* json.loads rejects the answer (line 161)
              /\ RaiseTo("analyze")
              /\ last_analyze' = FailedAnalysis(domain, 1, "unparseable")
              /\ UNCHANGED <<structure_cache, cache_file, structure>>
           \/ \E s \in schemas :
                /\ structure_cache' = [structure_cache EXCEPT ![domain] = s]
                /\ \/ \* _save_cache writes the document
                      /\ cache_file' = Document(structure_cache')
                      /\ structure' = s
                      /\ pc' = "check_fields"
                      /\ last_analyze' = Analysis(domain, FALSE, 1, s)
                      /\ UNCHANGED failed
                   \/ \* open(self.cache_file, 'w') raises: the file stays as it was
                      /\ RaiseTo("analyze")
                      /\ last_analyze' = FailedAnalysis(domain, 1, "save")
                      /\ UNCHANGED <<cache_file, structure>>
                   \/ \* json.dump raises after open truncated the file
                      /\ cache_file' = CorruptDocument
                      /\ RaiseTo("analyze")
                      /\ last_analyze' = FailedAnalysis(domain, 1, "save")
                      /\ UNCHANGED structure

\* A bug of the cache check: the service is asked whatever the cache holds.
AnalyzeWithoutCacheCheck(schemas) ==
    /\ pc = "analyze"
    /\ AnalyzeMiss(schemas)
    /\ UNCHANGED <<url, filled_data, attempts, submit_calls, gate, result, ncalls, peers,
                   orchestrator_vars>>

Analyze(schemas) ==
    /\ pc = "analyze"
    /\ IF structure_cache[DomainKey(url)] # NoStructure
       THEN AnalyzeHit
       ELSE AnalyzeMiss(schemas)
    /\ UNCHANGED <<url, filled_data, attempts, submit_calls, gate, result, ncalls, peers,
                   orchestrator_vars>>

\* A bug of the check of line 302: a schema without fields goes on.
CheckFieldsAlwaysPasses ==
    /\ pc = "check_fields"
    /\ pc' = "generate"
    /\ UNCHANGED <<url, structure, filled_data, attempts, submit_calls, gate,
                   requests, failed, result, ncalls, cache_vars>>

\* lines 302-304: if not structure.get("fields"): return False
CheckFields ==
    /\ pc = "check_fields"
    /\ IF structure.fields = <<>>
       THEN pc' = "done" /\ result' = ReturnFalse
       ELSE pc' = "generate" /\ UNCHANGED result
    /\ UNCHANGED <<url, structure, filled_data, attempts, submit_calls, gate,
                   requests, failed, ncalls, cache_vars>>

\* A bug of line 307: the values of a host are kept with its schema, so a
\* cache hit answers without asking the reasoning service.
GenerateSkipsRequestOnHit ==
    /\ pc = "generate"
    /\ requests' = [requests EXCEPT !.generate = IF last_analyze.hit THEN @ ELSE @ + 1]
    /\ \E values \in [LabelsOf(structure) -> ValueKinds] :
          /\ filled_data' = values
          /\ pc' = "fill"
          /\ UNCHANGED failed
    /\ UNCHANGED <<url, structure, attempts, submit_calls, gate, result, ncalls, cache_vars>>

\* line 307: _generate_field_values(structure, candidate_data), lines 168-212.
\* The answer maps labels to values; a label the answer leaves out is None.
Generate ==
    /\ pc = "generate"
    /\ requests' = [requests EXCEPT !.generate = @ + 1]
    /\ \/ \* the request raises, or json.loads rejects the answer (line 212)
          /\ RaiseTo("generate")
          /\ UNCHANGED filled_data
       \/ \E values \in [LabelsOf(structure) -> ValueKinds] :
             /\ filled_data' = values
             /\ pc' = "fill"
             /\ UNCHANGED failed
    /\ UNCHANGED <<url, structure, attempts, submit_calls, gate, result, ncalls, cache_vars>>

\* A bug of the loop: the try of line 236 is missing, so an exception of one
\* field leaves _fill_form and reaches "except Exception" of apply.
FillFieldWithoutTry ==
    /\ pc = "fill"
    /\ Len(attempts) < Len(structure.fields)
    /\ LET field == structure.fields[Len(attempts) + 1]
           v == TargetValue(field, filled_data)
       IN  \E page \in PageBehaviours(Branch(field, v)) :
             /\ attempts' = Append(attempts, [calls |-> FieldCalls(field, v, page),
                                              log |-> FieldLog(field, v, page)])
             /\ IF FieldRaises(field, v, page)
                THEN RaiseTo("fill")
                ELSE UNCHANGED <<pc, failed>>
    /\ UNCHANGED <<url, structure, filled_data, submit_calls, gate, requests,
                   result, ncalls, cache_vars>>

\* lines 220-289: one iteration of the loop of _fill_form.
FillField ==
    /\ pc = "fill"
    /\ Len(attempts) < Len(structure.fields)
    /\ LET field == structure.fields[Len(attempts) + 1]
           v == TargetValue(field, filled_data)
       IN  \E page \in PageBehaviours(Branch(field, v)) :
             attempts' = Append(attempts, [calls |-> FieldCalls(field, v, page),
                                           log |-> FieldLog(field, v, page)])
    /\ UNCHANGED <<pc, url, structure, filled_data, submit_calls, gate, requests,
                   failed, result, ncalls, cache_vars>>

\* What _fill_form returns to line 311: the function has no return
\* statement, and apply does not bind the value.
FillReturn == None

\* A bug of the loop: it can stop before the last field, and apply goes on
\* to the submit button.
FillDoneEarly ==
    /\ pc = "fill"
    /\ pc' = "submit_info"
    /\ UNCHANGED <<url, structure, filled_data, attempts, submit_calls, gate, requests,
                   failed, result, ncalls, cache_vars>>

\* line 313: the loop is over, _fill_form returns
FillDone ==
    /\ pc = "fill"
    /\ Len(attempts) = Len(structure.fields)
    /\ pc' = "submit_info"
    /\ UNCHANGED <<url, structure, filled_data, attempts, submit_calls, gate, requests,
                   failed, result, ncalls, cache_vars>>


\* line 317: not submit_info or not submit_info.get("selector")
NoUsableSubmit(s) == ~s.submit_button.present \/ s.submit_button.selector.kind = "none"

\* lines 316-330: no usable submit_button pauses at line 319, otherwise the
\* selector is logged and the script pauses at line 330.
SubmitInfo ==
    /\ pc = "submit_info"
    /\ IF NoUsableSubmit(structure)
       THEN pc' = "pause_manual" /\ UNCHANGED gate
       ELSE pc' = "gate" /\ gate' = "presented"
    /\ UNCHANGED <<url, structure, filled_data, attempts, submit_calls, requests,
                   failed, result, ncalls, cache_vars>>

\* The operator at a breakpoint() prompt: "c" continues the script, "q" makes
\* the debugger raise bdb.BdbQuit (an Exception) in apply at the statement
\* that follows the pause.
OperatorCommands == {"c", "q"}

\* BdbQuit raised at a pause inside the try of apply.  The interpreter decides
\* whether the statement that follows the pause is still covered by
\* "except Exception" of line 347 (then apply pauses again at line 349) or not
\* (then BdbQuit leaves apply).
QuitInsideTry(stage) ==
    \/ RaiseTo(stage) /\ UNCHANGED result
    \/ pc' = "done" /\ result' = Raised /\ failed' = stage

\* line 319-320: breakpoint(), then return True
PauseManual ==
    /\ pc = "pause_manual"
    /\ \E cmd \in OperatorCommands :
         IF cmd = "c"
         THEN pc' = "done" /\ result' = ReturnTrue /\ UNCHANGED failed
         ELSE QuitInsideTry("quit_manual")
    /\ UNCHANGED <<url, structure, filled_data, attempts, submit_calls, gate, requests,
                   ncalls, cache_vars>>

\* A bug of the pause: the operator's "q" is swallowed and the script goes on.
GateIgnoresQuit ==
    /\ pc = "gate"
    /\ \E cmd \in OperatorCommands :
         /\ pc' = "click"
         /\ gate' = IF cmd = "c" THEN "approved" ELSE "declined"
         /\ UNCHANGED <<failed, result>>
    /\ UNCHANGED <<url, structure, filled_data, attempts, submit_calls, requests,
                   ncalls, cache_vars>>

\* line 330: breakpoint(), the pause before the submit click
Gate ==
    /\ pc = "gate"
    /\ \E cmd \in OperatorCommands :
         IF cmd = "c"
         THEN pc' = "click" /\ gate' = "approved" /\ UNCHANGED <<failed, result>>
         ELSE gate' = "declined" /\ QuitInsideTry("quit_gate")
    /\ UNCHANGED <<url, structure, filled_data, attempts, submit_calls, requests,
                   ncalls, cache_vars>>

\* lines 332-345: locate the submit control, click it by script, sleep and
\* return True; an exception is logged and the script pauses at line 343.
SubmitClick ==
    /\ pc = "click"
    /\ LET sel == structure.submit_button.selector
       IN  \E page \in {"ok", "locate", "click"} :
             /\ submit_calls' = IF page = "locate" THEN <<Call("locate", sel, "")>>
                                ELSE <<Call("locate", sel, ""), Call("script_click", sel, "")>>
             /\ IF page = "ok"
                THEN pc' = "done" /\ result' = ReturnTrue
                ELSE pc' = "pause_click_failed" /\ UNCHANGED result
    /\ UNCHANGED <<url, structure, filled_data, attempts, gate, requests, failed,
                   ncalls, cache_vars>>

\* lines 343-345: breakpoint() of the inner except, then return True
PauseClickFailed ==
    /\ pc = "pause_click_failed"
    /\ \E cmd \in OperatorCommands :
         IF cmd = "c"
         THEN pc' = "done" /\ result' = ReturnTrue /\ UNCHANGED failed
         ELSE QuitInsideTry("quit_click_failed")
    /\ UNCHANGED <<url, structure, filled_data, attempts, submit_calls, gate, requests,
                   ncalls, cache_vars>>

\* lines 347-350: breakpoint() of "except Exception", then return False.
\* Nothing encloses the handler: BdbQuit raised here leaves apply.
PauseError ==
    /\ pc = "pause_error"
    /\ \E cmd \in OperatorCommands :
         /\ pc' = "done"
         /\ result' = IF cmd = "c" THEN ReturnFalse ELSE Raised
    /\ UNCHANGED <<url, structure, filled_data, attempts, submit_calls, gate, requests,
                   failed, ncalls, cache_vars>>

(***************************************************************************)
(* The life of the process: construction and exit.                         *)
(***************************************************************************)
\* lines 56-61: LLMGenericApplicator(driver, client) loads the cache.  An
\* exception of _load_cache leaves __init__: no applicator exists.
Construct ==
    /\ pc = "unconstructed"
    /\ IF LoadRaises(cache_file)
       THEN pc' = "crashed" /\ UNCHANGED structure_cache
       ELSE pc' = "idle" /\ structure_cache' = LoadCache(cache_file)
    /\ UNCHANGED <<cache_file, url, structure, filled_data, attempts, submit_calls, gate,
                   requests, failed, result, ncalls, last_analyze, prev_analyze, peers,
                   orchestrator_vars>>

\* The process ends between two apply calls; the cache document stays.
Exit ==
    /\ pc \in {"idle", "done"}
    /\ pc' = "unconstructed"
    /\ structure_cache' = EmptyCache
    /\ url' = Url("", "")
    /\ structure' = NoStructure
    /\ filled_data' = NoValues
    /\ attempts' = <<>>
    /\ submit_calls' = <<>>
    /\ gate' = "not_reached"
    /\ requests' = NoRequests
    /\ failed' = "none"
    /\ result' = "None"
    /\ UNCHANGED <<cache_file, ncalls, last_analyze, prev_analyze, peers, orchestrator_vars>>

(***************************************************************************)
(* Parallel applicators that share the cache file.                         *)
(***************************************************************************)
main_vars == <<structure_cache, pc, url, structure, filled_data, attempts, submit_calls,
               gate, requests, failed, result, ncalls, last_analyze, prev_analyze,
               orchestrator_vars>>

\* lines 56-61 in process i
PeerConstruct(i) ==
    /\ peers[i].pc = "unconstructed"
    /\ peers' = [peers EXCEPT ![i] =
                   IF LoadRaises(cache_file)
                   THEN Peer("crashed", EmptyCache, Url("", ""), NoStructure, FALSE)
                   ELSE Peer("idle", LoadCache(cache_file), Url("", ""), NoStructure, FALSE)]
    /\ UNCHANGED <<cache_file, main_vars>>

\* lines 104-159 in process i: the cache check, and on a miss the request to
\* the reasoning service, which is then in flight.
PeerAnalyzeRequest(i, u) ==
    /\ peers[i].pc \in {"idle", "returned", "raised"}
    /\ LET c == peers[i].cache
           domain == DomainKey(u)
       IN  peers' = [peers EXCEPT ![i] =
                       IF c[domain] # NoStructure
                       THEN Peer("returned", c, u, c[domain], FALSE)
                       ELSE Peer("requested", c, u, NoStructure, FALSE)]
    /\ UNCHANGED <<cache_file, main_vars>>

\* lines 161-166 in process i: the answer is parsed, stored in this
\* process's structure_cache, and _save_cache rewrites the whole file from
\* it.  No lock is taken; the write is taken as one step here.
PeerAnalyzeStore(i, schemas) ==
    /\ peers[i].pc = "requested"
    /\ LET c == peers[i].cache
           u == peers[i].url
       IN  \/ /\ peers' = [peers EXCEPT ![i] = Peer("raised", c, u, NoStructure, FALSE)]
              /\ UNCHANGED cache_file
           \/ \E s \in schemas :
                LET c2 == [c EXCEPT ![DomainKey(u)] = s]
                IN  /\ peers' = [peers EXCEPT ![i] = Peer("returned", c2, u, s, TRUE)]
                    /\ cache_file' = Document(c2)
    /\ UNCHANGED main_vars

(***************************************************************************)
(* The pipeline functions.                                                 *)
(***************************************************************************)
applicator_vars == <<structure_cache, cache_file, pc, url, structure, filled_data, attempts,
                     submit_calls, gate, requests, failed, result, ncalls, last_analyze,
                     prev_analyze, peers>>

\* orchestrator.py line 211: filter_new_jobs(found_job_objects, df_existing_jobs)
CallFilterNewJobs ==
    /\ filter_call.pc = "called"
    /\ filter_call' = [filter_call EXCEPT
                         !.pc = "returned",
                         !.new_jobs = FilterNewJobs(filter_call.scraped_jobs, filter_call.existing_df)]
    /\ UNCHANGED <<applicator_vars, fetch_call, search_call>>

\* A bug of the loop of fetch_job_details_safely: without the try of line
\* 39 the exception of one job ends the function.
FetchJobWithoutTry ==
    /\ fetch_call.pc = "loop"
    /\ fetch_call.i < Len(fetch_call.new_jobs_to_process)
    /\ LET job == fetch_call.new_jobs_to_process[fetch_call.i + 1]
       IN  \E job_detail \in AgentAnswers(job) :
             fetch_call' = [fetch_call EXCEPT
                 !.pc = IF FetchRaises(job, job_detail) THEN "raised" ELSE @,
                 !.i = @ + 1,
                 !.answers = Append(@, job_detail),
                 !.job_details_list =
                     IF ~FetchRaises(job, job_detail) /\ job_detail.apply_type # "Easy Apply"
                     THEN Append(@, Enriched(job, job_detail))
                     ELSE @]
    /\ UNCHANGED <<applicator_vars, filter_call, search_call>>

\* orchestrator.py lines 38-57: one iteration of the loop.
FetchJob ==
    /\ fetch_call.pc = "loop"
    /\ fetch_call.i < Len(fetch_call.new_jobs_to_process)
    /\ LET job == fetch_call.new_jobs_to_process[fetch_call.i + 1]
       IN  \E job_detail \in AgentAnswers(job) :
             fetch_call' = [fetch_call EXCEPT
                 !.i = @ + 1,
                 !.answers = Append(@, job_detail),
                 !.job_details_list =
                     IF ~FetchRaises(job, job_detail) /\ job_detail.apply_type # "Easy Apply"
                     THEN Append(@, Enriched(job, job_detail))
                     ELSE @]
    /\ UNCHANGED <<applicator_vars, filter_call, search_call>>

\* orchestrator.py line 59: return job_details_list
FetchReturn ==
    /\ fetch_call.pc = "loop"
    /\ fetch_call.i = Len(fetch_call.new_jobs_to_process)
    /\ fetch_call' = [fetch_call EXCEPT !.pc = "returned"]
    /\ UNCHANGED <<applicator_vars, filter_call, search_call>>

\* job_search.py lines 216-330: one turn of the while loop on a result page
\* that loads.  A page without any card stops the search (line 325).
SearchPage ==
    /\ search_call.pc = "loop"
    /\ ContinueSearch(search_call)
    /\ \E page \in Pages :
         search_call' = [search_call EXCEPT
             !.job_list = @ \o PagePosts(page, {}),
             !.start = IF page = <<>> THEN @ ELSE @ + PageStep,
             !.pc = IF page = <<>> THEN "no_jobs" ELSE @]
    /\ UNCHANGED <<applicator_vars, filter_call, fetch_call>>

\* lines 260-321: driver.get or the wait for the container raises; "except
\* Exception" logs it and breaks.
SearchLoadFails ==
    /\ search_call.pc = "loop"
    /\ ContinueSearch(search_call)
    /\ search_call' = [search_call EXCEPT !.pc = "load_failed"]
    /\ UNCHANGED <<applicator_vars, filter_call, fetch_call>>

\* lines 331-333: job_list.jobs[:results_wanted] is returned.
SearchReturn ==
    /\ \/ search_call.pc \in {"load_failed", "no_jobs"}
       \/ search_call.pc = "loop" /\ ~ContinueSearch(search_call)
    /\ search_call' = [search_call EXCEPT
           !.pc = "returned",
           !.job_list = IF Len(@) > search_call.results_wanted
                        THEN SubSeq(@, 1, search_call.results_wanted)
                        ELSE @]
    /\ UNCHANGED <<applicator_vars, filter_call, fetch_call>>

(***************************************************************************)
(* Specifications.                                                         *)
(***************************************************************************)
\* apply called MaxCalls times on one applicator.
Next ==
    \/ \E u \in Urls : StartApply(u)
    \/ Navigate
    \/ WaitReady
    \/ Analyze(ServiceSchemas)
    \/ CheckFields
    \/ Generate
    \/ FillField
    \/ FillDone
    \/ SubmitInfo
    \/ PauseManual
    \/ Gate
    \/ SubmitClick
    \/ PauseClickFailed
    \/ PauseError

Spec == Init /\ [][Next]_vars

\* _fill_form alone, on every schema and value map of the fill pool.
InitFill ==
    /\ structure_cache = EmptyCache
    /\ cache_file = Document(EmptyCache)
    /\ pc = "fill"
    /\ url = Url("", "")
    /\ structure \in FillSchemas
    /\ filled_data \in [Labels -> ValueKinds]
    /\ attempts = <<>>
    /\ submit_calls = <<>>
    /\ gate = "not_reached"
    /\ requests = NoRequests
    /\ failed = "none"
    /\ result = "None"
    /\ ncalls = 0
    /\ last_analyze = NoAnalysis
    /\ prev_analyze = NoAnalysis
    /\ peers = NoPeers
    /\ OrchestratorIdle

NextFill == FillField \/ FillDone

SpecFill == InitFill /\ [][NextFill]_vars


\* Processes that start on a cache document left by earlier ones.
RestartSchemas == {Schema(fs, sb) : fs \in SeqsUpTo(ApplyFieldPool, 1), sb \in {NoSubmit, SubmitButton}}

StartDocuments ==
    {MissingDocument, CorruptDocument, UnreadableDocument, Document(EmptyCache)}
    \cup {Document([EmptyCache EXCEPT !["jobs.lever.co"] = s]) : s \in RestartSchemas}

InitRestart ==
    /\ structure_cache = EmptyCache
    /\ cache_file \in StartDocuments
    /\ pc = "unconstructed"
    /\ url = Url("", "")
    /\ structure = NoStructure
    /\ filled_data = NoValues
    /\ attempts = <<>>
    /\ submit_calls = <<>>
    /\ gate = "not_reached"
    /\ requests = NoRequests
    /\ failed = "none"
    /\ result = "None"
    /\ ncalls = 0
    /\ last_analyze = NoAnalysis
    /\ prev_analyze = NoAnalysis
    /\ peers = NoPeers
    /\ OrchestratorIdle

NextRestart ==
    \/ Construct
    \/ Exit
    \/ \E u \in Urls : StartApply(u)
    \/ Navigate
    \/ WaitReady
    \/ Analyze(RestartSchemas)
    \/ CheckFields
    \/ Generate
    \/ FillField
    \/ FillDone
    \/ SubmitInfo
    \/ PauseManual
    \/ Gate
    \/ SubmitClick
    \/ PauseClickFailed
    \/ PauseError

SpecRestart == InitRestart /\ [][NextRestart]_vars

\* _generate_field_values and _fill_form on schemas with required fields
\* (lines 307-311).
InitGenerate ==
    /\ structure_cache = EmptyCache
    /\ cache_file = Document(EmptyCache)
    /\ pc = "generate"
    /\ url = Url("", "")
    /\ structure \in GenerateSchemas
    /\ filled_data = NoValues
    /\ attempts = <<>>
    /\ submit_calls = <<>>
    /\ gate = "not_reached"
    /\ requests = NoRequests
    /\ failed = "none"
    /\ result = "None"
    /\ ncalls = 0
    /\ last_analyze = NoAnalysis
    /\ prev_analyze = NoAnalysis
    /\ peers = NoPeers
    /\ OrchestratorIdle

NextGenerate == Generate \/ FillField \/ FillDone

SpecGenerate == InitGenerate /\ [][NextGenerate]_vars

\* apply from line 307 to its return, on schemas with required fields.
OutcomeSchemas == {Schema(fs, sb) : fs \in SeqsUpTo(GenerateFieldPool, MaxFillFields) \ {<<>>}, sb \in SubmitSpecs}

InitOutcome ==
    /\ structure_cache = EmptyCache
    /\ cache_file = Document(EmptyCache)
    /\ pc = "generate"
    /\ url = Url("", "")
    /\ structure \in OutcomeSchemas
    /\ filled_data = NoValues
    /\ attempts = <<>>
    /\ submit_calls = <<>>
    /\ gate = "not_reached"
    /\ requests = NoRequests
    /\ failed = "none"
    /\ result = "None"
    /\ ncalls = 0
    /\ last_analyze = NoAnalysis
    /\ prev_analyze = NoAnalysis
    /\ peers = NoPeers
    /\ OrchestratorIdle

NextOutcome ==
    \/ Generate
    \/ FillField
    \/ FillDone
    \/ SubmitInfo
    \/ PauseManual
    \/ Gate
    \/ SubmitClick
    \/ PauseClickFailed
    \/ PauseError

SpecOutcome == InitOutcome /\ [][NextOutcome]_vars

\* filter_new_jobs on every list of jobs and every sheet of the bounds.
InitFilter ==
    /\ ApplicatorIdle
    /\ filter_call \in {FilterCall("called", jobs, df, <<>>) :
                            jobs \in SeqsUpTo({JobPost(id, TRUE) : id \in JobIds}, MaxJobs),
                            df \in DataFrames}
    /\ fetch_call = NoFetchCall
    /\ search_call = NoSearchCall

NextFilter == CallFilterNewJobs

SpecFilter == InitFilter /\ [][NextFilter]_vars

\* fetch_job_details_safely on every list of jobs of the bounds.
FetchJobs == SeqsUpTo({JobPost(id, loc) : id \in {"1", "2"}, loc \in BOOLEAN}, MaxJobs)

InitFetch ==
    /\ ApplicatorIdle
    /\ filter_call = NoFilterCall
    /\ fetch_call \in {FetchCall("loop", jobs, 0, <<>>, <<>>) : jobs \in FetchJobs}
    /\ search_call = NoSearchCall

NextFetch == FetchJob \/ FetchReturn

SpecFetch == InitFetch /\ [][NextFetch]_vars

\* JobSearch.search on every sequence of result pages of the bounds.
SearchOffsets == {0, 15}

InitSearch ==
    /\ ApplicatorIdle
    /\ filter_call = NoFilterCall
    /\ fetch_call = NoFetchCall
    /\ search_call \in {SearchCall("loop", wanted, (offset \div OffsetUnit) * OffsetUnit, <<>>) :
                            wanted \in 0..MaxWanted, offset \in SearchOffsets}

NextSearch == SearchPage \/ SearchLoadFails \/ SearchReturn

SpecSearch == InitSearch /\ [][NextSearch]_vars

\* Two processes, each with its own applicator, on one cache file.
SharedSchemas == {Schema(fs, sb) : fs \in [{1} -> ApplyFieldPool], sb \in {NoSubmit, SubmitButton}}

InitShared ==
    /\ Init
    /\ peers = NoPeers

NextShared ==
    \E i \in Instances :
        \/ PeerConstruct(i)
        \/ \E u \in Urls : PeerAnalyzeRequest(i, u)
        \/ PeerAnalyzeStore(i, SharedSchemas)

SpecShared == InitShared /\ [][NextShared]_vars

(***************************************************************************)
(* Properties.                                                             *)
(***************************************************************************)
HasScriptClick(calls) == \E k \in DOMAIN calls : calls[k].op = "script_click"

\* C1: within one apply call the script click on the submit control is
\* issued only after the pause of the submission gate was reached in that
\* call and the operator let the script continue; the click step is entered
\* in no other way.
C1_SubmitClickOnlyAfterApproval ==
    /\ HasScriptClick(submit_calls) => gate = "approved"
    /\ pc \in {"click", "pause_click_failed"} => gate = "approved"
    /\ submit_calls # <<>> => gate = "approved"

C1_Witness ==
    /\ pc = "done"
    /\ result = ReturnTrue
    /\ gate = "approved"
    /\ HasScriptClick(submit_calls)

\* C2: when _fill_form is over, every field of the schema has had its own
\* iteration of the loop, whatever the driver did to the fields before it.
C2_EveryFieldAttempted ==
    pc # "fill" => Len(attempts) = Len(structure.fields)

C2_Witness ==
    /\ pc = "submit_info"
    /\ Len(attempts) = 2
    /\ attempts[1].log = "error_failed_to_fill"
    /\ attempts[2].log = "info_filling"
    /\ attempts[2].calls # <<>>

\* C3: apply never ends with an exception that reaches its caller.
C3_ApplyNeverRaises == result # Raised

\* C4: when an analyze call has returned a schema for a host, the next
\* analyze call, if it is for the same host, issues no reasoning-service
\* request and returns the same schema; if the first of the two was a miss,
\* the two calls together issued exactly one request.
C4_CacheIdempotence ==
    (/\ prev_analyze.done
     /\ last_analyze.done
     /\ prev_analyze.host = last_analyze.host
     /\ prev_analyze.returned # NoStructure)
    => /\ last_analyze.requests = 0
       /\ last_analyze.returned = prev_analyze.returned
       /\ ~prev_analyze.hit => prev_analyze.requests + last_analyze.requests = 1

C4_Witness ==
    /\ prev_analyze.done
    /\ ~prev_analyze.hit
    /\ prev_analyze.requests = 1
    /\ prev_analyze.returned.fields # <<>>
    /\ last_analyze.done
    /\ last_analyze.host = prev_analyze.host
    /\ last_analyze.hit
    /\ last_analyze.returned = prev_analyze.returned

\* C5: a field whose value is missing from the value map or is the skip
\* sentinel "N/A" gets no driver call at all.
C5_SkippedFieldUntouched ==
    \A k \in DOMAIN attempts :
        LET v == TargetValue(structure.fields[k], filled_data)
        IN  (v = None \/ v = NA) => attempts[k].calls = <<>>

C5_Witness ==
    \E k \in DOMAIN attempts : \E j \in DOMAIN attempts :
        /\ ~Malformed(structure.fields[k])
        /\ TargetValue(structure.fields[k], filled_data) = NA
        /\ attempts[k].calls = <<>>
        /\ attempts[k].log = "info_skipping"
        /\ k < j
        /\ attempts[j].calls # <<>>

\* C6: apply on a schema with fields and no usable submit action, once the
\* fields are filled, ends with an outcome that is neither the one of a
\* submitted application (True) nor the one of a failure (False), and issues
\* no driver call on a submit control.
C6_NoSubmitOutcomeDistinct ==
    (/\ pc = "done"
     /\ structure.fields # <<>>
     /\ NoUsableSubmit(structure)
     /\ failed \in {"none", "quit_manual"})
    => /\ result \notin {ReturnTrue, ReturnFalse, Raised}
       /\ submit_calls = <<>>

\* C7: when the operator declines at the submission gate no submit click is
\* issued and apply ends with an outcome of its own, which is neither the one
\* of a failure (False) nor the one of a submitted application (True).
C7_DeclineOutcomeDistinct ==
    (pc = "done" /\ gate = "declined")
    => /\ ~HasScriptClick(submit_calls)
       /\ result \notin {ReturnFalse, ReturnTrue, Raised}

\* C8: neither the cache in memory nor the cache document ever holds a
\* schema without fields.
C8_NoEmptySchemaCached ==
    \A h \in Hosts :
        /\ structure_cache[h] # NoStructure => structure_cache[h].fields # <<>>
        /\ cache_file.doc[h] # NoStructure => cache_file.doc[h].fields # <<>>

\* C9: when navigation, the readiness wait or analysis has raised, apply
\* issues no value-generation request, touches no field, does not present the
\* gate, clicks no submit control, and returns False.
C9_EarlyFailureStopsApply ==
    failed \in {"navigate", "wait_ready", "analyze"}
    => /\ requests.generate = 0
       /\ attempts = <<>>
       /\ gate = "not_reached"
       /\ submit_calls = <<>>
       /\ pc \in {"pause_error", "done"}
       /\ pc = "done" => result = ReturnFalse

\* C10: when the schema apply got from the service or from the cache has no
\* fields, apply returns False with no value-generation request, no driver
\* call on a field, no gate and no submit click.
C10_NoFieldsFails ==
    (structure # NoStructure /\ structure.fields = <<>>)
    => /\ requests.generate = 0
       /\ attempts = <<>>
       /\ gate = "not_reached"
       /\ submit_calls = <<>>
       /\ pc \in {"check_fields", "done"}
       /\ pc = "done" => result = ReturnFalse

C10_Witness ==
    /\ pc = "done"
    /\ structure # NoStructure
    /\ structure.fields = <<>>
    /\ last_analyze.hit
    /\ result = ReturnFalse

\* C11: when the reasoning service answers the analysis request with text
\* that is no JSON, the analysis has made exactly one request, the cache and
\* the cache document hold nothing for the host, and apply returns False.
C11_UnparseableAnalysisFails ==
    (failed = "analyze" /\ last_analyze.error = "unparseable")
    => /\ last_analyze.requests = 1
       /\ requests.analyze = 1
       /\ structure_cache[last_analyze.host] = NoStructure
       /\ cache_file.doc[last_analyze.host] = NoStructure
       /\ pc = "done" => result = ReturnFalse

\* C12: _fill_form returns a report with exactly one outcome (filled, skipped
\* or failed) per field of the schema.
C12_FillReturnsReport ==
    pc = "submit_info"
    => /\ FillReturn # None
       /\ Len(FillReturn) = Len(structure.fields)
       /\ \A k \in DOMAIN structure.fields : FillReturn[k] \in {"filled", "skipped", "failed"}

\* C13: whatever the state of the cache document at start-up, the applicator
\* is constructed; on a document that cannot be read or parsed it starts with
\* an empty cache.
C13_LoadFailsOpen ==
    /\ pc # "crashed"
    /\ (pc = "idle" /\ ~(cache_file.exists /\ cache_file.opens /\ cache_file.readable))
       => structure_cache = EmptyCache

\* C14: the cache entry an analyze call reads and writes is the one of the
\* host of its URL.  After an analyze that returned a schema, an analyze for
\* a URL of the same host (whatever its path) is a hit that returns that
\* schema; a call is a hit exactly when the host of its own URL is cached,
\* returns that host's entry and leaves the entries of all other hosts alone.
C14_SameHostIsHit ==
    (/\ prev_analyze.done
     /\ last_analyze.done
     /\ prev_analyze.returned # NoStructure
     /\ prev_analyze.url.host = last_analyze.url.host)
    => /\ last_analyze.hit
       /\ last_analyze.requests = 0
       /\ last_analyze.returned = prev_analyze.returned

C14_AnalyzeStepUsesOwnHost ==
    (pc = "analyze" /\ pc' # "analyze")
    => /\ last_analyze'.hit <=> structure_cache[url.host] # NoStructure
       /\ last_analyze'.hit => last_analyze'.returned = structure_cache[url.host]
       /\ \A h \in Hosts \ {url.host} : structure_cache'[h] = structure_cache[h]

C14_CacheKeyIsHost == []C14_SameHostIsHit /\ [][C14_AnalyzeStepUsesOwnHost]_vars

C14_Witness ==
    /\ prev_analyze.done
    /\ ~prev_analyze.hit
    /\ prev_analyze.returned.fields # <<>>
    /\ last_analyze.done
    /\ last_analyze.url.host = prev_analyze.url.host
    /\ last_analyze.url.path # prev_analyze.url.path
    /\ last_analyze.hit
    /\ last_analyze.returned = prev_analyze.returned
    /\ \E h \in Hosts : h # last_analyze.url.host /\ structure_cache[h] = NoStructure

\* C15: in one process, once the cache holds a schema for a host no step
\* changes or removes that entry, and every later analyze for that host is a
\* hit that makes no request.
C15_EntryStep ==
    /\ \A h \in Hosts : structure_cache[h] # NoStructure => structure_cache'[h] = structure_cache[h]
    /\ (pc = "analyze" /\ pc' # "analyze" /\ structure_cache[url.host] # NoStructure)
       => /\ last_analyze'.hit
          /\ requests' = requests
          /\ structure' = structure_cache[url.host]

C15_EntryWrittenOnce == [][C15_EntryStep]_vars

C15_Witness ==
    /\ pc = "done"
    /\ ncalls = MaxCalls
    /\ prev_analyze.done /\ ~prev_analyze.hit /\ prev_analyze.returned # NoStructure
    /\ last_analyze.done /\ last_analyze.hit
    /\ structure_cache[last_analyze.host] = prev_analyze.returned
    /\ requests.analyze = 0

\* C16: when two parallel applicators on one cache file have each analysed
\* and stored a different host, the file holds the schemas of both hosts.
C16_NoLostCacheWrite ==
    \A i \in Instances : \A j \in Instances \ {i} :
        (/\ peers[i].pc = "returned" /\ peers[i].stored
         /\ peers[j].pc = "returned" /\ peers[j].stored
         /\ DomainKey(peers[i].url) # DomainKey(peers[j].url))
        => /\ cache_file.doc[DomainKey(peers[i].url)] = peers[i].returned
           /\ cache_file.doc[DomainKey(peers[j].url)] = peers[j].returned

\* C17: once the value generator has answered, the value map holds no skip
\* sentinel "N/A" for a field the schema marks required.
C17_RequiredNeverSentinel ==
    (requests.generate = 1 /\ failed = "none")
    => \A k \in DOMAIN structure.fields :
          structure.fields[k].required => TargetValue(structure.fields[k], filled_data) # NA

\* C18: for a radio field whose selector carries the group name and whose
\* value v is not skipped, every driver call targets the one locator built
\* from the group name and v, the only click is a script click, at most one
\* is made, and it is made whenever the option was located.
C18_RadioAttempts ==
    {k \in DOMAIN attempts :
        LET field == structure.fields[k]
        IN  /\ field.type = "radio"
            /\ field.selector.kind = "name"
            /\ ~Falsy(field.label)
            /\ TargetValue(field, filled_data) \notin {None, "", NA}}

C18_RadioClicksValueOption ==
    \A k \in C18_RadioAttempts :
        LET field == structure.fields[k]
            v == TargetValue(field, filled_data)
            target == [kind |-> "input_name_value", name |-> field.selector.name, value |-> v]
            calls == attempts[k].calls
        IN  /\ Len(calls) \in {1, 2}
            /\ calls[1] = Call("locate", target, v)
            /\ Len(calls) = 2 => calls[2] = Call("script_click", target, v)
            /\ attempts[k].log = "info_filling" => Len(calls) = 2
            /\ \A c \in DOMAIN calls : calls[c].op # "click"

C18_Witness ==
    \E k \in C18_RadioAttempts :
        /\ attempts[k].log = "info_filling"
        /\ attempts[k].calls[2].op = "script_click"
        /\ attempts[k].calls[2].sel.value = "B"

\* C19: an apply call that returned True after the operator confirmed the
\* gate has issued the script click on the submit control.
C19_SuccessOnlyAfterClick ==
    (pc = "done" /\ gate = "approved" /\ result = ReturnTrue)
    => /\ HasScriptClick(submit_calls)
       /\ submit_calls[Len(submit_calls)].sel = structure.submit_button.selector

\* C20: for a select field with a value to fill, selection by visible text
\* is called only directly after selection by value, and a field for which
\* both were called without either selecting an option is recorded as
\* failed.
C20_SelectAttempts ==
    {k \in DOMAIN attempts :
        LET field == structure.fields[k]
        IN  /\ field.type = "select"
            /\ ~Malformed(field)
            /\ TargetValue(field, filled_data) \notin {None, "", NA}}

C20_SelectFallbackRecorded ==
    \A k \in C20_SelectAttempts :
        LET calls == attempts[k].calls
            by_text == {c \in DOMAIN calls : calls[c].op = "select_by_visible_text"}
        IN  /\ \A c \in by_text : c > 1 /\ calls[c - 1].op = "select_by_value"
            /\ (by_text # {} /\ attempts[k].log # "info_filling")
               => attempts[k].log = "error_failed_to_fill"

\* C21: for a radio field with a value to fill whose selector gives no group
\* name, _fill_form makes no driver call, goes on to the fields after it,
\* and its result records the field as failed.
C21_UnparsedRadioAttempts ==
    {k \in DOMAIN attempts :
        LET field == structure.fields[k]
        IN  /\ field.type = "radio"
            /\ field.selector.kind \notin {"name", "none"}
            /\ ~Falsy(field.label)
            /\ TargetValue(field, filled_data) \notin {None, "", NA}}

C21_UnparsedRadioFails ==
    (pc = "submit_info")
    => \A k \in C21_UnparsedRadioAttempts :
          /\ attempts[k].calls = <<>>
          /\ Len(attempts) = Len(structure.fields)
          /\ FillReturn # None
          /\ FillReturn[k] = "failed"

\* C22: an apply call that got a schema with fields has issued exactly one
\* value-generation request once it is past line 307, also when the schema
\* was a cache hit; a call without such a schema has issued none; and the
\* step that issues the request leaves the cache and its file as they were.
C22_OneGenerateRequest ==
    /\ requests.generate \in {0, 1}
    /\ structure.fields = <<>> => requests.generate = 0
    /\ (structure.fields # <<>> /\ pc \notin {"check_fields", "generate"})
       => requests.generate = 1

C22_GenerateStep ==
    requests'.generate # requests.generate
    => UNCHANGED <<structure_cache, cache_file>>

C22_ValuesNeverCached == []C22_OneGenerateRequest /\ [][C22_GenerateStep]_vars

C22_Witness ==
    /\ pc = "fill"
    /\ last_analyze.hit
    /\ requests.analyze = 0
    /\ requests.generate = 1
    /\ ncalls = 2

\* C23: within one apply call the stages come in the order navigate,
\* analyze, generate, fill, gate, submit click: a later stage has left its
\* trace only when the earlier ones have, the gate is presented only when
\* every field of the schema has had its attempt, and no attempt is added
\* once the gate was presented.
C23_Rank ==
    [unconstructed |-> 0, crashed |-> 0, idle |-> 0, navigate |-> 1, wait_ready |-> 2,
     analyze |-> 3, check_fields |-> 4, generate |-> 5, fill |-> 6, submit_info |-> 7,
     pause_manual |-> 8, gate |-> 8, click |-> 9, pause_click_failed |-> 10,
     pause_error |-> 11, done |-> 12]

C23_StagesDone ==
    /\ C23_Rank[pc] \in 5..10 => (last_analyze.done /\ structure = last_analyze.returned)
    /\ requests.generate = 1 => structure.fields # <<>>
    /\ attempts # <<>> => (requests.generate = 1 /\ filled_data # NoValues)
    /\ (gate # "not_reached" \/ pc = "gate")
       => (Len(attempts) = Len(structure.fields) /\ requests.generate = 1)
    /\ submit_calls # <<>> => gate = "approved"

C23_StageStep ==
    pc' # "navigate"
    => /\ C23_Rank[pc'] >= C23_Rank[pc]
       /\ gate # "not_reached" => attempts' = attempts
       /\ attempts' # attempts => (pc = "fill" /\ Len(attempts') = Len(attempts) + 1)

C23_StagesInOrder == []C23_StagesDone /\ [][C23_StageStep]_vars

C23_Witness ==
    /\ pc = "click"
    /\ gate = "approved"
    /\ Len(attempts) = 2
    /\ attempts[2].calls # <<>>
    /\ requests.generate = 1

\* C24: a host whose analysis succeeded and was saved is in the cache of
\* every applicator constructed afterwards on the same cache file, with the
\* schema that analysis returned.
C24_CacheDurable ==
    (pc = "idle")
    => \A a \in {prev_analyze, last_analyze} :
          (a.done /\ a.error = "none" /\ ~a.hit)
          => structure_cache[a.host] = a.returned

\* C25: apply returns True only when the schema has a usable submit button
\* and _fill_form has filled at least one field the schema marks required.
C25_SuccessNeedsFilledRequired ==
    (result = ReturnTrue)
    => /\ ~NoUsableSubmit(structure)
       /\ \E k \in DOMAIN attempts :
             /\ structure.fields[k].required
             /\ attempts[k].log = "info_filling"

\* C26: after an analysis that ended with an error, structure_cache has no
\* entry for its host; and every entry of structure_cache is in the cache
\* file with the same schema.
C26_NoEntryWithoutSave ==
    /\ last_analyze.error # "none" => structure_cache[last_analyze.host] = NoStructure
    /\ \A h \in Hosts :
          structure_cache[h] # NoStructure => LoadCache(cache_file)[h] = structure_cache[h]

\* C27: a field without a label, a selector or a type gets no driver call,
\* only the warning of line 229, and when _fill_form is over every field of
\* the schema, before and after it, has had its own iteration.
C27_Lacking ==
    {k \in DOMAIN attempts :
        LET field == structure.fields[k]
        IN  \/ field.label \in {None, ""}
            \/ field.selector = NoSel
            \/ field.type \in {None, ""}}

C27_MalformedFieldSkipped ==
    /\ \A k \in C27_Lacking :
          /\ attempts[k].calls = <<>>
          /\ attempts[k].log = "warning_skipping_malformed"
    /\ pc = "submit_info" => Len(attempts) = Len(structure.fields)
    /\ \A k \in DOMAIN attempts \ C27_Lacking :
          attempts[k].log # "warning_skipping_malformed"

C27_Witness ==
    /\ pc = "submit_info"
    /\ Len(attempts) = 2
    /\ C27_Lacking = {1}
    /\ attempts[1].calls = <<>>
    /\ attempts[2].log = "info_filling"
    /\ attempts[2].calls # <<>>

\* C28: filter_new_jobs returns the jobs that have an id which is not among
\* the ids of the sheet's id column, in the order of its input; a sheet
\* without rows or without an id column has no ids.
C28_SheetIds ==
    LET df == filter_call.existing_df
    IN  IF df.id_column
        THEN {df.cells[k].v : k \in {j \in DOMAIN df.cells : df.cells[j].kind # "nan"}}
        ELSE {}

C28_IsNewJob(job) == job.id \notin {None, ""} /\ job.id \notin C28_SheetIds

C28_OnlyNewJobsWithId ==
    (filter_call.pc = "returned")
    => filter_call.new_jobs = SelectSeq(filter_call.scraped_jobs, C28_IsNewJob)

\* C29: fetch_job_details_safely asks the agent for every job of its
\* input, whatever the answers for the jobs before it, never ends with an
\* exception, and returns, in input order, the details of the jobs for which
\* the agent returned details whose apply type is not "Easy Apply".
C29_Kept ==
    {k \in DOMAIN fetch_call.answers :
        fetch_call.answers[k].found /\ fetch_call.answers[k].apply_type # "Easy Apply"}

C29_EveryJobFetched ==
    /\ fetch_call.pc # "raised"
    /\ Len(fetch_call.answers) = fetch_call.i
    /\ fetch_call.pc = "returned"
       => /\ fetch_call.i = Len(fetch_call.new_jobs_to_process)
          /\ Len(fetch_call.job_details_list) = Cardinality(C29_Kept)
          /\ \A n \in DOMAIN fetch_call.job_details_list :
                \E k \in C29_Kept :
                   /\ Cardinality({j \in C29_Kept : j <= k}) = n
                   /\ fetch_call.job_details_list[n].job_id = fetch_call.new_jobs_to_process[k].id
                   /\ fetch_call.job_details_list[n].apply_type = fetch_call.answers[k].apply_type
                   /\ fetch_call.job_details_list[n].job_location_scraped_from_linkedin
                         = fetch_call.new_jobs_to_process[k].has_location

C29_Witness ==
    /\ fetch_call.pc = "returned"
    /\ Len(fetch_call.new_jobs_to_process) = 2
    /\ ~fetch_call.answers[1].found
    /\ fetch_call.answers[2].apply_type = "External Apply"
    /\ Len(fetch_call.job_details_list) = 1

\* C30: JobSearch.search returns at most results_wanted jobs, and no two of
\* them have the same id.
C30_NoDuplicateJobs ==
    (search_call.pc = "returned")
    => /\ Len(search_call.job_list) <= search_call.results_wanted
       /\ \A m \in DOMAIN search_call.job_list : \A n \in DOMAIN search_call.job_list :
             m # n => search_call.job_list[m].id # search_call.job_list[n].id

====
